---- MODULE Spec2Model ----
(***************************************************************************)
(* Model of llm_studio/src/loggers.py: the configuration flattener         *)
(* get_cfg, the logger classes (LocalLogger, NeptuneLogger, DummyLogger),  *)
(* the Loggers factory and the MainLogger dispatcher;                      *)
(* and of llm_studio/src/utils/config_utils.py: the configuration loader   *)
(* load_config with its module reloads.                                    *)
(*                                                                         *)
(* Four specifications share the variables:                                *)
(*   SpecLoad   load_config and _load_cls called on module files that are  *)
(*              edited between the calls                                   *)
(*   SpecCfg    get_cfg applied to a configuration drawn from Configs      *)
(*   SpecSinks  direct calls of the log methods of the three logger        *)
(*              classes                                                    *)
(*   Spec       MainLogger: construction, log, reset_external              *)
(***************************************************************************)
EXTENDS Integers, Sequences, FiniteSets, TLC

VARIABLES
    cfg,        \* the configuration instance: a sequence of fields in declared order
    env,        \* what the process cannot control: the remote service and the output directory
    pc,         \* position of the caller: "start", "ready", "failed", "done"
    items,      \* result of the last get_cfg call of SpecCfg
    loggers,    \* MainLogger.loggers: the classes of the objects in the two slots
    logs,       \* the SqliteDict behind LocalLogger (charts.db): a dict key -> dict
    remote,     \* the Neptune run: the cfg uploaded and the records it was sent
    issued,     \* history: the calls made so far and how each ended
    files,      \* the module files on disk: module name -> what the file defines
    sys_modules, \* sys.modules: module name -> namespace of the imported module
    loaded      \* the last call of load_config or _load_cls and how it ended

vars == <<cfg, env, pc, items, loggers, logs, remote, issued, files, sys_modules, loaded>>

(***************************************************************************)
(* Python values.  n is the number, s the text; a NaN is the float whose   *)
(* s is "nan"; a dataclass instance carries its fields beside the value.   *)
(***************************************************************************)
Int_(i) == [t |-> "int", n |-> i, s |-> ""]
Float_(i) == [t |-> "float", n |-> i, s |-> ""]
Str_(x) == [t |-> "str", n |-> 0, s |-> x]
NaN == [t |-> "float", n |-> 0, s |-> "nan"]
None == [t |-> "none", n |-> 0, s |-> ""]
Dataclass == [t |-> "dataclass", n |-> 0, s |-> ""]

\* np.isnan(value), for the numeric values the callers pass
isnan(v) == v.t = "float" /\ v.s = "nan"

\* float(v): the float of the same number; float(nan) is nan
float(v) == [v EXCEPT !.t = "float"]

\* Python's ==  on numbers: 3 == 3.0, and nan equals nothing
NumEq(a, b) ==
    /\ a.t \in {"int", "float"} /\ b.t \in {"int", "float"}
    /\ ~isnan(a) /\ ~isnan(b)
    /\ a.n = b.n

\* k.startswith(p)
startswith(k, p) == Len(k) >= Len(p) /\ SubSeq(k, 1, Len(p)) = p

\* p in k, for strings
contains(k, p) == \E i \in 1..(Len(k) - Len(p) + 1) : SubSeq(k, i, i + Len(p) - 1) = p

(***************************************************************************)
(* Python dicts: a sequence of [k, v] in insertion order, keys unique.     *)
(***************************************************************************)
DictKeys(d) == {d[i].k : i \in 1..Len(d)}
DictHas(d, k) == k \in DictKeys(d)
DictIdx(d, k) == CHOOSE i \in 1..Len(d) : d[i].k = k
DictGet(d, k) == d[DictIdx(d, k)].v

\* d[k] = v: an existing key keeps its place, a new key goes last
DictSet(d, k, v) ==
    IF DictHas(d, k)
    THEN [d EXCEPT ![DictIdx(d, k)] = [k |-> k, v |-> v]]
    ELSE Append(d, [k |-> k, v |-> v])

\* {**a, **b}
RECURSIVE DictMergeKeepsEarlier(_, _)
DictMergeKeepsEarlier(a, b) ==
    IF b = <<>> THEN a
    ELSE DictMergeKeepsEarlier(IF DictHas(a, b[1].k) THEN a ELSE DictSet(a, b[1].k, b[1].v),
                               Tail(b))
RECURSIVE DictMerge(_, _)
DictMerge(a, b) ==
    IF b = <<>> THEN a
    ELSE DictMerge(DictSet(a, b[1].k, b[1].v), Tail(b))

(***************************************************************************)
(* Configuration records.  A field has a name, a visibility, a declared    *)
(* type and a value; the fields of a nested dataclass value are in sub.    *)
(***************************************************************************)
Leaf(name, vis, ann, val) ==
    [name |-> name, vis |-> vis, ann |-> ann, val |-> val, sub |-> <<>>]
Nested(name, vis, sub) ==
    [name |-> name, vis |-> vis, ann |-> "dataclass", val |-> Dataclass, sub |-> sub]

\* cfg._get_order(warn_if_unset=False): the positions of the fields, in declared order
get_order(c) == 1..Len(c)
\* cfg._get_visibility(k)
get_visibility(f) == f.vis
\* cfg.get_annotations()[k]
get_annotations(f) == f.ann
\* dataclasses.is_dataclass(v)
is_dataclass(v) == v.t = "dataclass"

\* the value get_cfg stores for a scalar field: float(v) if the annotation is float
CoerceNone(f) == f.val
Coerce(f) == IF get_annotations(f) = "float" THEN float(f.val) ELSE f.val

\* the test that makes get_cfg skip a field
Skipped(f) ==
    \/ startswith(f.name, "_") \/ get_visibility(f) < 0
    \/ \E x \in {"api"} : contains(f.name, x)

\* the loop of get_cfg from field i on, items being the dict built so far
RECURSIVE get_cfg_loop(_, _, _)
get_cfg_loop(c, i, acc) ==
    IF i \notin get_order(c) THEN acc
    ELSE LET f == c[i] IN
        IF Skipped(f) THEN get_cfg_loop(c, i + 1, acc)
        ELSE IF is_dataclass(f.val)
        THEN get_cfg_loop(c, i + 1, DictMerge(acc, get_cfg_loop(f.sub, 1, <<>>)))
        ELSE get_cfg_loop(c, i + 1, DictSet(acc, f.name, Coerce(f)))

get_cfg(c) == get_cfg_loop(c, 1, <<>>)

(***************************************************************************)
(* The configurations get_cfg is tried on.                                 *)
(***************************************************************************)
MaxFields == 2

LeafFields == {
    Leaf("lr", 1, "float", Int_(1)),
    Leaf("lr", 0, "float", Float_(2)),
    Leaf("seed", 1, "int", Int_(3)),
    Leaf("seed", 1, "int", Float_(4)),
    Leaf("name", 1, "str", Str_("run")),
    Leaf("_lr", 1, "float", Float_(5)),
    Leaf("neptune_api_token", 1, "str", Str_("secret")),
    Leaf("seed", -1, "int", Int_(6)) }

SubLeaves == {
    Leaf("lr", 1, "float", Int_(7)),
    Leaf("seed", 1, "int", Float_(8)),
    Leaf("_seed", 1, "int", Int_(9)),
    Leaf("rank", -1, "int", Int_(10)) }

SubRecords == {<<f>> : f \in SubLeaves} \cup {<<f, g>> : f, g \in SubLeaves}

DeepFields == {
    Nested("outer", 1, <<Leaf("seed", 1, "int", Int_(11)),
                         Nested("inner", 1, <<Leaf("lr", 1, "float", Int_(12)),
                                              Leaf("depth", 1, "int", Int_(13))>>),
                         Leaf("lr", 1, "float", Float_(14))>>),
    Nested("outer", 1, <<Nested("_inner", 1, <<Leaf("lr", 1, "float", Int_(15))>>),
                         Nested("api", 1, <<Leaf("seed", 1, "int", Int_(16))>>),
                         Nested("inner", -1, <<Leaf("name", 1, "str", Str_("in"))>>),
                         Leaf("depth", 1, "float", Int_(17))>>) }

NestedFields ==
    {Nested("logging", 1, r) : r \in SubRecords}
    \cup {Nested("_logging", 1, <<Leaf("lr", 1, "float", Int_(7))>>),
          Nested("logging", -1, <<Leaf("seed", 1, "int", Float_(8))>>),
          Nested("api", 0, <<Leaf("lr", 1, "float", Int_(7))>>)}
    \cup DeepFields

Fields == LeafFields \cup NestedFields

RECURSIVE SeqsUpTo(_, _)
SeqsUpTo(S, n) ==
    IF n = 0 THEN {<<>>}
    ELSE LET shorter == SeqsUpTo(S, n - 1) IN
        shorter \cup {Append(q, x) : q \in shorter, x \in S}

Configs == SeqsUpTo(Fields, MaxFields)

(***************************************************************************)
(* SpecCfg: get_cfg applied once to a configuration.                       *)
(***************************************************************************)
NoLoggers == [local |-> "none", external |-> "none"]
NoFiles == <<>>
NoLoad == [op |-> "none", module_path |-> "", cls_name |-> "", exc |-> "", value |-> None]
NoRemote == [open |-> FALSE, cfg |-> <<>>, records |-> <<>>]
HealthyEnv == [remote |-> "ok", disk |-> TRUE]

InitCfg ==
    /\ cfg \in Configs
    /\ env = HealthyEnv
    /\ pc = "start"
    /\ items = <<>>
    /\ loggers = NoLoggers
    /\ logs = <<>>
    /\ remote = NoRemote
    /\ issued = <<>>
    /\ files = NoFiles /\ sys_modules = <<>> /\ loaded = NoLoad

GetCfg ==
    /\ pc = "start"
    /\ items' = get_cfg(cfg)
    /\ pc' = "done"
    /\ UNCHANGED <<files, sys_modules, loaded, cfg, env, loggers, logs, remote, issued>>

NextCfg == GetCfg

SpecCfg == InitCfg /\ [][NextCfg]_vars

(***************************************************************************)
(* What the claims about get_cfg speak of: the leaf fields of a            *)
(* configuration in declared order, nested records flattened in place,     *)
(* each with whether it is kept (neither it nor a record holding it is     *)
(* private, of negative visibility or named after an API secret).          *)
(***************************************************************************)
Excluded(f) ==
    \/ (Len(f.name) > 0 /\ SubSeq(f.name, 1, 1) = "_")
    \/ f.vis < 0
    \/ \E i \in 1..(Len(f.name) - 2) : SubSeq(f.name, i, i + 2) = "api"

RECURSIVE FlatLeaves(_, _)
FlatLeaves(c, kept) ==
    IF c = <<>> THEN <<>>
    ELSE LET f == c[1]
             k == kept /\ ~Excluded(f)
         IN (IF f.val.t = "dataclass"
             THEN FlatLeaves(f.sub, k)
             ELSE <<[f |-> f, kept |-> k]>>) \o FlatLeaves(Tail(c), kept)

KeptLeaves(c) == SelectSeq(FlatLeaves(c, TRUE), LAMBDA l : l.kept)

\* the position of the first kept leaf named k
FirstKept(c, k) ==
    LET ls == KeptLeaves(c) IN CHOOSE i \in 1..Len(ls) : ls[i].f.name = k /\
        \A j \in 1..(i - 1) : ls[j].f.name # k

\* exactly the kept leaves, no key twice, keys in declared order
KeysAsDeclared(c, d) ==
    /\ DictKeys(d) = {KeptLeaves(c)[i].f.name : i \in 1..Len(KeptLeaves(c))}
    /\ \A i, j \in 1..Len(d) : i # j => d[i].k # d[j].k
    /\ \A i, j \in 1..Len(d) : i < j => FirstKept(c, d[i].k) < FirstKept(c, d[j].k)

World(l, r) == [logs |-> l, remote |-> r, raised |-> FALSE]
Raise(w) == [w EXCEPT !.raised = TRUE]

\* {"steps": [], "values": []}
Series(steps, values) ==
    [t |-> "dict", n |-> 0, s |-> "", steps |-> steps, values |-> values]

\* NeptuneLogger.__init__: neptune.init opens the run, then the cfg is uploaded
NeptuneLoggerInit(w, e, c) ==
    IF e.remote = "init_fails" THEN Raise(w)
    ELSE [w EXCEPT !.remote = [open |-> TRUE, cfg |-> get_cfg(c), records |-> <<>>]]

\* NeptuneLogger.log
NeptuneLoggerLog(w, e, subset, name, value, step) ==
    LET qname == subset \o "/" \o name IN
    IF e.remote = "log_fails" THEN Raise(w)
    ELSE [w EXCEPT !.remote.records =
              Append(@, [name |-> qname, value |-> value, step |-> step])]

\* LocalLogger.__init__: opens charts.db in the output directory and stores the cfg
LocalLoggerInit(w, e, c) ==
    IF ~e.disk THEN Raise(w)
    ELSE [w EXCEPT !.logs = DictSet(@, "cfg", get_cfg(c))]

\* the value LocalLogger.log appends: None if np.isnan(value) else float(value)
Normalize(value) == IF isnan(value) THEN None ELSE float(value)

\* LocalLogger.log
LocalLoggerLogFirstWins(w, e, subset, name, value, step) ==
    LET subset_dict == IF DictHas(w.logs, subset) THEN DictGet(w.logs, subset) ELSE <<>> IN
    IF subset \in {"image", "html"}
    THEN IF DictHas(subset_dict, name) THEN w
         ELSE [w EXCEPT !.logs = DictSet(@, subset, DictSet(subset_dict, name, value))]
    ELSE IF value.t \notin {"int", "float"}
    THEN Raise(w)
    ELSE LET v == Normalize(value)
             d == IF DictHas(subset_dict, name) THEN subset_dict
                  ELSE DictSet(subset_dict, name, Series(<<>>, <<>>))
             old == DictGet(d, name)
         IN IF old.t # "dict"
            THEN Raise(w)
            ELSE [w EXCEPT !.logs = DictSet(@, subset,
                      DictSet(d, name, Series(Append(old.steps, step),
                                              Append(old.values, v))))]
LocalLoggerLog(w, e, subset, name, value, step) ==
    LET subset_dict == IF DictHas(w.logs, subset) THEN DictGet(w.logs, subset) ELSE <<>> IN
    IF subset \in {"image", "html"}
    THEN [w EXCEPT !.logs = DictSet(@, subset, DictSet(subset_dict, name, value))]
    ELSE IF value.t \notin {"int", "float"}
    THEN Raise(w)                        \* np.isnan of a non-number: TypeError
    ELSE LET v == Normalize(value)
             d == IF DictHas(subset_dict, name) THEN subset_dict
                  ELSE DictSet(subset_dict, name, Series(<<>>, <<>>))
             old == DictGet(d, name)
         IN IF old.t # "dict"
            THEN Raise(w)                \* subset_dict[name]["steps"] of a scalar: TypeError
            ELSE [w EXCEPT !.logs = DictSet(@, subset,
                      DictSet(d, name, Series(Append(old.steps, step),
                                              Append(old.values, v))))]

\* DummyLogger.__init__ and DummyLogger.log
DummyLoggerInit(w, e, c) == w
DummyLoggerLogChecksValue(w, e, subset, name, value, step) ==
    IF isnan(value) \/ step = None THEN Raise(w) ELSE w
DummyLoggerLog(w, e, subset, name, value, step) == w

\* cls(cfg), for the classes a slot can hold
Construct(cls, w, e, c) ==
    CASE cls = "LocalLogger" -> LocalLoggerInit(w, e, c)
      [] cls = "NeptuneLogger" -> NeptuneLoggerInit(w, e, c)
      [] OTHER -> DummyLoggerInit(w, e, c)

\* logger.log(subset=subset, name=name, value=value, step=step)
SinkLog(cls, w, e, subset, name, value, step) ==
    CASE cls = "LocalLogger" -> LocalLoggerLog(w, e, subset, name, value, step)
      [] cls = "NeptuneLogger" -> NeptuneLoggerLog(w, e, subset, name, value, step)
      [] OTHER -> DummyLoggerLog(w, e, subset, name, value, step)

(***************************************************************************)
(* Loggers: the factory.                                                   *)
(***************************************************************************)
_loggers == [x \in {"None", "Neptune"} |->
                IF x = "None" THEN "DummyLogger" ELSE "NeptuneLogger"]

\* Loggers.names()
Loggers_names == DOMAIN _loggers

\* Loggers.get(name): cls._loggers.get(name, DummyLogger)
Loggers_get_NoDefault(name) ==
    IF name \in DOMAIN _loggers THEN _loggers[name] ELSE "NeptuneLogger"
Loggers_get(name) ==
    IF name \in DOMAIN _loggers THEN _loggers[name] ELSE "DummyLogger"

(***************************************************************************)
(* MainLogger.                                                             *)
(***************************************************************************)
\* cfg.<name>
Attr(c, name) == c[CHOOSE i \in 1..Len(c) : c[i].name = name]

\* cfg.logging.logger
LoggerName(c) == Attr(Attr(c, "logging").sub, "logger").val.s

\* the order in which self.loggers.items() yields the slots
SlotOrderExternalFirst == <<"external", "local">>
SlotOrder == <<"local", "external">>

\* the two tests of MainLogger.log that skip a slot
SkipsNoInternalRule(k, cls, subset, name) ==
    contains(name, "validation_predictions") /\ k = "external"
SkipsNoPredictionsRule(k, cls, subset, name) ==
    subset = "internal" /\ cls # "LocalLogger"
Skips(k, cls, subset, name) ==
    \/ contains(name, "validation_predictions") /\ k = "external"
    \/ subset = "internal" /\ cls # "LocalLogger"

\* the loop of MainLogger.log over the slots ks still to visit; st.w is the
\* world, st.recv the classes whose log has been called and st.by the class
\* whose log raised; an exception leaves the loop
RECURSIVE MainLoggerLogLoop(_, _, _, _, _, _, _, _)
MainLoggerLogLoop(st, ks, ls, e, subset, name, value, step) ==
    IF ks = <<>> \/ st.w.raised THEN st
    ELSE LET k == Head(ks)
             cls == ls[k]
         IN IF Skips(k, cls, subset, name)
            THEN MainLoggerLogLoop(st, Tail(ks), ls, e, subset, name, value, step)
            ELSE LET w == SinkLog(cls, st.w, e, subset, name, value, step) IN
                 MainLoggerLogLoop(
                     [w |-> w, recv |-> Append(st.recv, cls),
                      by |-> IF w.raised THEN cls ELSE ""],
                     Tail(ks), ls, e, subset, name, value, step)

\* MainLogger.log as a whole
MainLoggerLogCallSwallows(w, ls, e, subset, name, value, step) ==
    LET st == MainLoggerLogLoop([w |-> w, recv |-> <<>>, by |-> ""],
                                SlotOrder, ls, e, subset, name, value, step)
    IN [st EXCEPT !.w.raised = FALSE, !.by = ""]
MainLoggerLogCall(w, ls, e, subset, name, value, step) ==
    MainLoggerLogLoop([w |-> w, recv |-> <<>>, by |-> ""],
                      SlotOrder, ls, e, subset, name, value, step)

\* self.loggers["external"] = DummyLogger()
ResetExternalKeeps(ls) == ls
ResetExternalReconnects(ls) == [ls EXCEPT !.external = "NeptuneLogger"]
ResetExternal(ls) == [ls EXCEPT !.external = "DummyLogger"]

\* the slot after the try/except of MainLogger.__init__
ExternalAfterInit(cls, raised) == IF raised THEN "DummyLogger" ELSE cls

(***************************************************************************)
(* Spec: a MainLogger is built over a configuration and then used.         *)
(***************************************************************************)
MaxCalls == 3

MainCfg(l) == <<
    Leaf("output_directory", 1, "str", Str_("out")),
    Leaf("lr", 1, "float", Int_(1)),
    Nested("logging", 1, <<
        Leaf("logger", 1, "str", Str_(l)),
        Leaf("neptune_api_token", 1, "str", Str_("secret")),
        Leaf("_neptune_debug", 1, "int", Int_(0))>>)>>

MainCfgs == {MainCfg(l) : l \in {"None", "Neptune", "Aim"}}

\* the remote service is only ever contacted by a NeptuneLogger
Envs(c) ==
    {e \in [remote : {"ok", "init_fails", "log_fails"}, disk : BOOLEAN] :
        LoggerName(c) # "Neptune" => e.remote = "ok"}

\* what the callers of MainLogger.log pass: subset, name, and whether the
\* value is a number logged at a step or a NaN logged without one
LogArgs == {
    <<"internal", "loss", "num">>,
    <<"internal", "validation_predictions_x", "num">>,
    <<"train", "loss", "num">>,
    <<"train", "loss", "nan">>,
    <<"train", "validation_predictions_x", "num">>,
    <<"image", "loss", "num">>,
    <<"cfg", "lr", "num">>,
    <<"cfg", "loss", "num">> }

\* the value and the step of the n-th call: a float or an int logged at step
\* n, a NaN logged without a step or at step n, an image logged at step n
ValueOf(kind, n) ==
    CASE kind = "num" -> Float_(n)
      [] kind = "int" -> Int_(n)
      [] kind = "blob" -> [t |-> "str", n |-> n, s |-> "png"]   \* the n-th picture
      [] OTHER -> NaN
StepOf(kind, n) == IF kind = "nan" THEN None ELSE Int_(n)

\* a call in the history: what was called with what, whether it raised, the
\* classes whose method it called in order, and the class that raised
Issued(op, subset, name, value, step, raised, recv) ==
    [op |-> op, subset |-> subset, name |-> name, value |-> value, step |-> step,
     raised |-> raised, recv |-> recv,
     by |-> IF raised /\ recv # <<>> THEN recv[Len(recv)] ELSE ""]

\* the calls made on the MainLogger once it is built
Calls == SelectSeq(issued, LAMBDA c : c.op \in {"log", "reset_external"})

Init ==
    /\ cfg \in MainCfgs
    /\ env \in Envs(cfg)
    /\ pc = "start"
    /\ items = <<>>
    /\ loggers = NoLoggers
    /\ logs = <<>>
    /\ remote = NoRemote
    /\ issued = <<>>
    /\ files = NoFiles /\ sys_modules = <<>> /\ loaded = NoLoad

\* MainLogger.__init__, the dict literal: LocalLogger(cfg) and Loggers.get(cfg.logging.logger)
MainLoggerInitSlots ==
    /\ pc = "start"
    /\ LET w == LocalLoggerInit(World(logs, remote), env, cfg) IN
        IF w.raised
        THEN /\ pc' = "failed"
             /\ issued' = Append(issued, Issued("LocalLogger.__init__", "", LoggerName(cfg),
                                                None, None, TRUE, <<>>))
             /\ UNCHANGED <<loggers, logs>>
        ELSE /\ pc' = "slots"
             /\ logs' = w.logs
             /\ loggers' = [local |-> "LocalLogger", external |-> Loggers_get(LoggerName(cfg))]
             /\ issued' = Append(issued, Issued("Loggers.get", "", LoggerName(cfg),
                                                None, None, FALSE, <<>>))
    /\ UNCHANGED <<files, sys_modules, loaded, cfg, env, items, remote>>

\* MainLogger.__init__, the try/except: the class in the external slot is called
MainLoggerInitExternal ==
    /\ pc = "slots"
    /\ LET w == Construct(loggers.external, World(logs, remote), env, cfg) IN
        /\ loggers' = [loggers EXCEPT !.external = ExternalAfterInit(@, w.raised)]
        /\ remote' = w.remote
        /\ issued' = Append(issued, Issued("external.__init__", "", LoggerName(cfg),
                                           None, None, w.raised, <<loggers.external>>))
    /\ pc' = "ready"
    /\ UNCHANGED <<files, sys_modules, loaded, cfg, env, items, logs>>

\* MainLogger.log
MainLoggerLog ==
    /\ pc = "ready"
    /\ Len(Calls) < MaxCalls
    /\ \E a \in LogArgs :
        LET value == ValueOf(a[3], Len(Calls) + 1)
            step == StepOf(a[3], Len(Calls) + 1)
            st == MainLoggerLogCall(World(logs, remote), loggers, env,
                                    a[1], a[2], value, step)
        IN /\ logs' = st.w.logs
           /\ remote' = st.w.remote
           /\ issued' = Append(issued, [Issued("log", a[1], a[2], value, step,
                                               st.w.raised, st.recv) EXCEPT !.by = st.by])
    /\ UNCHANGED <<files, sys_modules, loaded, cfg, env, pc, items, loggers>>

\* MainLogger.reset_external
MainLoggerResetExternal ==
    /\ pc = "ready"
    /\ Len(Calls) < MaxCalls
    /\ loggers' = ResetExternal(loggers)
    /\ issued' = Append(issued, Issued("reset_external", "", "", None, None, FALSE, <<>>))
    /\ UNCHANGED <<files, sys_modules, loaded, cfg, env, pc, items, logs, remote>>

Next ==
    \/ MainLoggerInitSlots
    \/ MainLoggerInitExternal
    \/ MainLoggerLog
    \/ MainLoggerResetExternal

Spec == Init /\ [][Next]_vars

(***************************************************************************)
(* Properties of MainLogger (Spec).                                        *)
(***************************************************************************)
Range(q) == {q[i] : i \in 1..Len(q)}
LogCalls == {i \in 1..Len(issued) : issued[i].op = "log"}
ResetCalls == {i \in 1..Len(issued) : issued[i].op = "reset_external"}
IsPredictions(name) ==
    \E i \in 1..(Len(name) - 21) : SubSeq(name, i, i + 21) = "validation_predictions"

\* the entry of call c is what the local store holds last under its subset and name
Recorded(c) ==
    /\ DictHas(logs, c.subset)
    /\ DictHas(DictGet(logs, c.subset), c.name)
    /\ LET x == DictGet(DictGet(logs, c.subset), c.name) IN
        IF c.subset \in {"image", "html"} THEN x = c.value
        ELSE /\ x.t = "dict"
             /\ Len(x.steps) > 0 /\ Len(x.values) = Len(x.steps)
             /\ x.steps[Len(x.steps)] = c.step
             /\ IF c.value = NaN THEN x.values[Len(x.values)] = None
                ELSE NumEq(x.values[Len(x.values)], c.value)

\* C1: a log call with subset "internal" calls the log of the local sink only,
\* whatever sits in the external slot and whatever was called before, and the
\* remote service never holds a record of subset "internal".
C1_InternalStaysLocal ==
    /\ \A i \in LogCalls :
        issued[i].subset = "internal" => issued[i].recv = <<"LocalLogger">>
    /\ \A r \in Range(remote.records) :
        ~(Len(r.name) >= 9 /\ SubSeq(r.name, 1, 9) = "internal/")

\* an internal log call made on a MainLogger whose external sink is a
\* NeptuneLogger whose log fails, after a call that did reach that sink
C1_Witness ==
    /\ loggers.external = "NeptuneLogger" /\ env.remote = "log_fails"
    /\ \E i, j \in LogCalls :
        /\ i < j
        /\ issued[i].by = "NeptuneLogger"
        /\ issued[j].subset = "internal" /\ issued[j].recv = <<"LocalLogger">>

\* C2: a log call whose name contains "validation_predictions" calls the log of
\* the local sink and never that of the external sink, whatever its subset, and
\* the remote service never holds a record of such a name.
C2_PredictionsStayLocal ==
    /\ \A i \in LogCalls :
        IsPredictions(issued[i].name) => issued[i].recv = <<"LocalLogger">>
    /\ \A r \in Range(remote.records) : ~IsPredictions(r.name)

\* a validation-predictions log call of a subset other than "internal", made
\* while a healthy NeptuneLogger is the external sink, and stored locally
C2_Witness ==
    /\ loggers.external = "NeptuneLogger" /\ env.remote = "ok"
    /\ Len(issued) > 0
    /\ LET c == issued[Len(issued)] IN
        /\ c.op = "log" /\ c.subset = "train" /\ IsPredictions(c.name)
        /\ c.recv = <<"LocalLogger">> /\ Recorded(c)

\* the construction of the external sink raised
ExternalInitRaised ==
    \E i \in 1..Len(issued) : issued[i].op = "external.__init__" /\ issued[i].raised

\* C3 as stated: once the construction of the external sink has raised, the
\* MainLogger is built with a DummyLogger in the external slot, no later log
\* call raises, and each is recorded in the local store.
C3_AsStated ==
    (pc = "ready" /\ ExternalInitRaised) =>
        /\ loggers.external = "DummyLogger"
        /\ \A i \in LogCalls : ~issued[i].raised /\ "LocalLogger" \in Range(issued[i].recv)
        /\ Len(issued) > 0 /\ issued[Len(issued)].op = "log" => Recorded(issued[Len(issued)])

\* C4: once reset_external has been called, no log call calls the log of the
\* NeptuneLogger that was in the external slot, and the remote service holds
\* only records that were sent before the reset.
C4_NoDeliveryAfterReset ==
    /\ \A i \in ResetCalls : \A j \in LogCalls :
        i < j => "NeptuneLogger" \notin Range(issued[j].recv)
    /\ ResetCalls # {} =>
        Len(remote.records) =
            Cardinality({j \in LogCalls : /\ \A i \in ResetCalls : j < i
                                          /\ "NeptuneLogger" \in Range(issued[j].recv)
                                          /\ ~issued[j].raised})

\* a healthy NeptuneLogger received a log call, reset_external was called, and a
\* later log call that the routing rules send to both slots did not reach it
C4_Witness ==
    /\ env.remote = "ok"
    /\ \E i, j, k \in 1..Len(issued) :
        /\ i < j /\ j < k
        /\ issued[i].op = "log" /\ "NeptuneLogger" \in Range(issued[i].recv)
        /\ issued[j].op = "reset_external"
        /\ issued[k].op = "log" /\ issued[k].subset = "train" /\ issued[k].name = "loss"
        /\ issued[k].recv = <<"LocalLogger", "DummyLogger">>
    /\ Len(remote.records) = 1

\* the routing rules send call c to both slots
ToBothSlots(c) == c.op = "log" /\ c.subset # "internal" /\ ~IsPredictions(c.name)

\* C5 as stated: in a log call that the routing rules send to both slots, the
\* log of both sinks is called even when the log of one of them raises.
C5_AsStated ==
    \A i \in LogCalls :
        (ToBothSlots(issued[i]) /\ issued[i].raised) => Len(issued[i].recv) = 2

\* C5 amended: in a log call that the routing rules send to both slots the local
\* sink is called first; when the log of the external sink raises, the local
\* sink has received the call; when the log of the local sink raises, the log of
\* the external sink is not called; otherwise both are called.
C5_LocalFirstThenExternal ==
    \A i \in LogCalls : ToBothSlots(issued[i]) =>
        /\ issued[i].recv # <<>> /\ issued[i].recv[1] = "LocalLogger"
        /\ issued[i].by = "LocalLogger" => issued[i].recv = <<"LocalLogger">>
        /\ issued[i].by # "LocalLogger" =>
            /\ Len(issued[i].recv) = 2 /\ issued[i].recv[2] # "LocalLogger"
            /\ i = Len(issued) => Recorded(issued[i])
        /\ issued[i].raised <=> issued[i].by # ""

\* one log call sent to both slots raised in the NeptuneLogger after the local
\* sink stored it, and another raised in the local sink
C5_Witness ==
    /\ Len(issued) > 0
    /\ LET c == issued[Len(issued)] IN
        ToBothSlots(c) /\ c.by = "NeptuneLogger" /\ Recorded(c)
    /\ \E i \in LogCalls :
        /\ ToBothSlots(issued[i]) /\ issued[i].by = "LocalLogger"
        /\ issued[i].recv = <<"LocalLogger">>

\* C9: Loggers.get returns DummyLogger for "None", NeptuneLogger for "Neptune"
\* and DummyLogger for a name that is not registered, and a MainLogger built
\* with such a name has a DummyLogger in its external slot.
C9_UnknownNameIsDummy ==
    /\ pc = "slots" =>
        loggers.external =
            (CASE LoggerName(cfg) = "None" -> "DummyLogger"
               [] LoggerName(cfg) = "Neptune" -> "NeptuneLogger"
               [] OTHER -> "DummyLogger")
    /\ (pc = "ready" /\ LoggerName(cfg) \notin {"None", "Neptune"}) =>
        /\ loggers.external = "DummyLogger"
        /\ \A i \in LogCalls : "NeptuneLogger" \notin Range(issued[i].recv)
        /\ remote = NoRemote

\* a MainLogger built with the unregistered name "Aim" has logged through its
\* DummyLogger
C9_Witness ==
    /\ pc = "ready" /\ LoggerName(cfg) = "Aim"
    /\ \E i \in LogCalls : issued[i].recv = <<"LocalLogger", "DummyLogger">>

(***************************************************************************)
(* SpecSinks: a LocalLogger, a NeptuneLogger and a DummyLogger built over  *)
(* one configuration, and their log methods called directly.               *)
(***************************************************************************)
MaxSinkCalls == 3

LocalArgs == {
    <<"train", "loss", "num">>,
    <<"train", "loss", "int">>,
    <<"train", "loss", "nan">>,
    <<"train", "loss", "nan_at">>,
    <<"val", "loss", "num">>,
    <<"image", "pic", "blob">>,
    <<"image", "pic", "nan">>,
    <<"html", "pic", "blob">>,
    <<"cfg", "lr", "num">>,
    <<"cfg", "loss", "num">> }
NeptuneArgs == {<<"train", "loss", "num">>, <<"train", "loss", "nan_at">>}
DummyArgs == {<<"train", "loss", "nan">>, <<"image", "pic", "blob">>}

InitSinks ==
    /\ cfg = MainCfg("Neptune")
    /\ env = HealthyEnv
    /\ pc = "sinks"
    /\ items = <<>>
    /\ loggers = NoLoggers
    /\ LET w == DummyLoggerInit(
                    NeptuneLoggerInit(
                        LocalLoggerInit(World(<<>>, NoRemote), env, cfg), env, cfg), env, cfg)
       IN logs = w.logs /\ remote = w.remote
    /\ issued = <<>>
    /\ files = NoFiles /\ sys_modules = <<>> /\ loaded = NoLoad

\* the world after the next call, with arguments a, and its entry in the history
AfterCall(w, op, cls, a) ==
    /\ logs' = w.logs
    /\ remote' = w.remote
    /\ issued' = Append(issued, Issued(op, a[1], a[2], ValueOf(a[3], Len(issued) + 1),
                                       StepOf(a[3], Len(issued) + 1), w.raised, <<cls>>))

\* LocalLogger.log called directly
LocalLog ==
    /\ pc = "sinks"
    /\ Len(issued) < MaxSinkCalls
    /\ \E a \in LocalArgs :
        AfterCall(LocalLoggerLog(World(logs, remote), env, a[1], a[2],
                                 ValueOf(a[3], Len(issued) + 1),
                                 StepOf(a[3], Len(issued) + 1)),
                  "LocalLogger.log", "LocalLogger", a)
    /\ UNCHANGED <<files, sys_modules, loaded, cfg, env, pc, items, loggers>>

\* NeptuneLogger.log called directly
NeptuneLog ==
    /\ pc = "sinks"
    /\ Len(issued) < MaxSinkCalls
    /\ \E a \in NeptuneArgs :
        AfterCall(NeptuneLoggerLog(World(logs, remote), env, a[1], a[2],
                                   ValueOf(a[3], Len(issued) + 1),
                                   StepOf(a[3], Len(issued) + 1)),
                  "NeptuneLogger.log", "NeptuneLogger", a)
    /\ UNCHANGED <<files, sys_modules, loaded, cfg, env, pc, items, loggers>>

\* DummyLogger.log called directly
DummyLog ==
    /\ pc = "sinks"
    /\ Len(issued) < MaxSinkCalls
    /\ \E a \in DummyArgs :
        AfterCall(DummyLoggerLog(World(logs, remote), env, a[1], a[2],
                                 ValueOf(a[3], Len(issued) + 1),
                                 StepOf(a[3], Len(issued) + 1)),
                  "DummyLogger.log", "DummyLogger", a)
    /\ UNCHANGED <<files, sys_modules, loaded, cfg, env, pc, items, loggers>>

\* DummyLogger(cfg) or DummyLogger()
DummyInit ==
    /\ pc = "sinks"
    /\ Len(issued) < MaxSinkCalls
    /\ LET w == DummyLoggerInit(World(logs, remote), env, cfg) IN
        /\ logs' = w.logs
        /\ remote' = w.remote
        /\ issued' = Append(issued, Issued("DummyLogger.__init__", "", "", None, None,
                                           w.raised, <<"DummyLogger">>))
    /\ UNCHANGED <<files, sys_modules, loaded, cfg, env, pc, items, loggers>>

NextSinks == LocalLog \/ NeptuneLog \/ DummyLog \/ DummyInit

SpecSinks == InitSinks /\ [][NextSinks]_vars

(***************************************************************************)
(* Properties of the logger classes (SpecSinks).                           *)
(***************************************************************************)
\* the calls of LocalLogger.log made with a subset and a name, in call order
LocalCalls(subset, name) ==
    SelectSeq(issued, LAMBDA c :
        c.op = "LocalLogger.log" /\ c.subset = subset /\ c.name = name)

\* the calls of NeptuneLogger.log, in call order
NeptuneCalls == SelectSeq(issued, LAMBDA c : c.op = "NeptuneLogger.log")

\* the value as the claims have it stored: a NaN as the null marker
NullForNaN(stored, value) ==
    IF value.t = "float" /\ value.s = "nan" THEN stored = None ELSE NumEq(stored, value)

\* C6 as stated: for every subset other than "image" and "html" and every name,
\* the series stored under them has as steps the step arguments of the
\* LocalLogger.log calls made with them, in call order, and as values their
\* value arguments in call order with a null for every NaN.
C6_AsStated ==
    \A a \in LocalArgs :
        LET cs == LocalCalls(a[1], a[2]) IN
        (a[1] \notin {"image", "html"} /\ cs # <<>>) =>
            /\ DictHas(logs, a[1]) /\ DictHas(DictGet(logs, a[1]), a[2])
            /\ LET x == DictGet(DictGet(logs, a[1]), a[2]) IN
                /\ x.t = "dict"
                /\ x.steps = [i \in 1..Len(cs) |-> cs[i].step]
                /\ Len(x.values) = Len(cs)
                /\ \A i \in 1..Len(cs) : NullForNaN(x.values[i], cs[i].value)

\* C7 as stated: the remote service holds one record for each call of
\* NeptuneLogger.log, in call order: the name "<subset>/<name>", the step, and
\* the value with a null in place of a NaN.
C7_AsStated ==
    /\ Len(remote.records) = Len(NeptuneCalls)
    /\ \A i \in 1..Len(NeptuneCalls) :
        LET c == NeptuneCalls[i]
            r == remote.records[i]
        IN /\ r.name = c.subset \o "/" \o c.name
           /\ r.step = c.step
           /\ NullForNaN(r.value, c.value)
           /\ ~(r.value.t = "float" /\ r.value.s = "nan")

\* the call just made
JustIssued(ops) ==
    /\ issued' # issued
    /\ issued'[Len(issued')].op \in ops

\* C10: constructing a DummyLogger never raises, and a call of DummyLogger.log,
\* whatever its arguments (a NaN, no step), does not raise and leaves the local
\* store, the remote service and the slots of the MainLogger as they were.
C10_DummyIsNoOp ==
    [][JustIssued({"DummyLogger.log", "DummyLogger.__init__"}) =>
        /\ ~issued'[Len(issued')].raised
        /\ logs' = logs /\ remote' = remote /\ loggers' = loggers]_vars

\* DummyLogger.log was just called with a NaN and no step, after the local
\* store and the remote service had received entries
C10_Witness ==
    /\ Len(issued) = 3
    /\ issued[1].op = "LocalLogger.log" /\ ~issued[1].raised
    /\ issued[2].op = "NeptuneLogger.log"
    /\ issued[3].op = "DummyLogger.log" /\ issued[3].value = NaN /\ issued[3].step = None
    /\ ~issued[3].raised
    /\ Len(remote.records) = 1

(***************************************************************************)
(* Further properties of MainLogger (Spec).                                *)
(***************************************************************************)
\* C11: a failure of the local sink is not isolated: when LocalLogger(cfg)
\* raises, the construction of the MainLogger ends there with no MainLogger and
\* no DummyLogger put in its place, and when LocalLogger.log raises within
\* MainLogger.log, the call ends with that exception.
C11_LocalFailurePropagates ==
    [][/\ (pc = "start" /\ ~env.disk) =>
            /\ pc' = "failed" /\ loggers' = NoLoggers /\ logs' = logs
            /\ issued'[Len(issued')].op = "LocalLogger.__init__"
            /\ issued'[Len(issued')].raised
       /\ pc = "failed" => pc' = "failed"
       /\ JustIssued({"log"}) =>
            LET c == issued'[Len(issued')] IN
            LocalLoggerLog(World(logs, remote), env, c.subset, c.name, c.value, c.step).raised
                => (c.raised /\ c.by = "LocalLogger" /\ logs' = logs)]_vars

\* LocalLogger.log has just raised within a log call of a MainLogger whose
\* external sink is a healthy NeptuneLogger, and the caller got the exception
C11_Witness ==
    /\ loggers.external = "NeptuneLogger" /\ env.remote = "ok"
    /\ Len(issued) > 0
    /\ LET c == issued[Len(issued)] IN
        /\ c.op = "log" /\ c.raised /\ c.by = "LocalLogger"
        /\ c.subset = "cfg" /\ c.name = "lr"

(***************************************************************************)
(* config_utils.py: load_config, _load_cls, rreload.                       *)
(*                                                                         *)
(* A module file is what it defines at top level: defs maps a class name   *)
(* to the modules the class holds as attributes, imports lists the modules *)
(* the file imports at its top.  A namespace is a dict name -> class.      *)
(* The result of a step is [mods, exc, value]: sys.modules afterwards, the *)
(* exception raised ("" for none) and the value returned (the message,     *)
(* when an exception was raised).                                          *)
(***************************************************************************)
R(mods, exc, value) == [mods |-> mods, exc |-> exc, value |-> value]
NoFile == [exists |-> FALSE, imports |-> <<>>, defs |-> <<>>]
File(imports, defs) == [exists |-> TRUE, imports |-> imports, defs |-> defs]
FileOf(fs, name) == IF name \in DOMAIN fs THEN fs[name] ELSE NoFile
Class(module, name, attrs) == [t |-> "class", module |-> module, name |-> name, attrs |-> attrs]
Instance(c) == [t |-> "instance", of |-> c]

\* s.removesuffix(suffix)
removesuffix(s, suffix) ==
    IF Len(s) > Len(suffix) /\ SubSeq(s, Len(s) - Len(suffix) + 1, Len(s)) = suffix
    THEN SubSeq(s, 1, Len(s) - Len(suffix))
    ELSE IF s = suffix THEN "" ELSE s

\* s.replace(old, new) for a one-character old, from position i on
RECURSIVE replace_from(_, _, _, _)
replace_from(s, old, new, i) ==
    IF i > Len(s) THEN ""
    ELSE (IF SubSeq(s, i, i) = old THEN new ELSE SubSeq(s, i, i))
         \o replace_from(s, old, new, i + 1)
replace(s, old, new) == replace_from(s, old, new, 1)

\* module_path_fixed of _load_cls
module_path_fixed(module_path) == replace(removesuffix(module_path, ".py"), "/", ".")

\* the class statements of a file, executed in module name
RECURSIVE Bind(_, _)
Bind(name, defs) ==
    IF defs = <<>> THEN <<>>
    ELSE <<[k |-> defs[1].k, v |-> Class(name, defs[1].k, defs[1].v)]>> \o Bind(name, Tail(defs))

\* one statement after another: v is evaluated once, and F continues with its value
Then(v, F(_)) == CHOOSE y \in {F(x) : x \in {v}} : TRUE

\* importlib.import_module for each of names in order: a module already in
\* sys.modules is taken as it is, another is executed from its file in an empty
\* namespace, its own imports first
RECURSIVE import_all(_, _, _)
import_all(mods, fs, names) ==
    IF names = <<>> THEN R(mods, "", None)
    ELSE IF DictHas(mods, names[1]) THEN import_all(mods, fs, Tail(names))
    ELSE IF ~FileOf(fs, names[1]).exists
    THEN R(mods, "ModuleNotFoundError", Str_(names[1]))
    ELSE Then(import_all(mods, fs, FileOf(fs, names[1]).imports), LAMBDA r :
         IF r.exc # "" THEN r
         ELSE Then(DictSet(r.mods, names[1], Bind(names[1], FileOf(fs, names[1]).defs)),
                   LAMBDA m : import_all(m, fs, Tail(names))))

\* the file of module name executed in the namespace ns: names the file no
\* longer defines stay in ns
exec_module(mods, fs, name, ns) ==
    Then(import_all(mods, fs, FileOf(fs, name).imports), LAMBDA r :
    IF r.exc # "" THEN r
    ELSE R(r.mods, "", DictMerge(ns, Bind(name, FileOf(fs, name).defs))))

\* importlib.import_module(name)
import_module(mods, fs, name) ==
    Then(import_all(mods, fs, <<name>>), LAMBDA r :
    IF r.exc # "" THEN r ELSE R(r.mods, "", name))

\* importlib.reload(module)
reload(mods, fs, name) ==
    IF ~FileOf(fs, name).exists
    THEN R(mods, "ModuleNotFoundError", Str_(name))
    ELSE Then(exec_module(mods, fs, name, DictGet(mods, name)), LAMBDA r :
         IF r.exc # "" THEN r
         ELSE R(DictSet(r.mods, name, r.value), "", name))

\* the inner loop of rreload: the attributes of attribute1 that are modules
RECURSIVE rreload_attrs(_, _, _)
rreload_attrs(mods, fs, attrs) ==
    IF attrs = <<>> THEN R(mods, "", None)
    ELSE Then(reload(mods, fs, attrs[1]), LAMBDA r :
         IF r.exc # "" THEN r ELSE rreload_attrs(r.mods, fs, Tail(attrs)))

\* the outer loop of rreload over the names of the module
RECURSIVE rreload_loop(_, _, _)
rreload_loop(mods, fs, ns) ==
    IF ns = <<>> THEN R(mods, "", None)
    ELSE IF contains(ns[1].k, "Config")
         THEN Then(rreload_attrs(mods, fs, ns[1].v.attrs), LAMBDA r :
              IF r.exc # "" THEN r ELSE rreload_loop(r.mods, fs, Tail(ns)))
         ELSE rreload_loop(mods, fs, Tail(ns))
rreload(mods, fs, name) == rreload_loop(mods, fs, DictGet(mods, name))

\* the message of the assert of _load_cls
MissingClass(module_path, cls_name) ==
    Str_(module_path \o " file should contain " \o cls_name \o " class")

\* _load_cls(module_path, cls_name)
_load_cls_Unchecked(mods, fs, module_path, cls_name) ==
    Then(module_path_fixed(module_path), LAMBDA name :
    Then(import_module(mods, fs, name), LAMBDA r1 :
    IF r1.exc # "" THEN r1 ELSE
    Then(reload(r1.mods, fs, name), LAMBDA r2 :
    IF r2.exc # "" THEN r2 ELSE
    Then(rreload(r2.mods, fs, name), LAMBDA r3 :
    IF r3.exc # "" THEN r3 ELSE
    Then(reload(r3.mods, fs, name), LAMBDA r4 :
    IF r4.exc # "" THEN r4
    ELSE IF ~DictHas(DictGet(r4.mods, name), cls_name)
         THEN R(r4.mods, "", None)
         ELSE R(r4.mods, "", DictGet(DictGet(r4.mods, name), cls_name)))))))
_load_cls(mods, fs, module_path, cls_name) ==
    Then(module_path_fixed(module_path), LAMBDA name :
    Then(import_module(mods, fs, name), LAMBDA r1 :
    IF r1.exc # "" THEN r1 ELSE
    Then(reload(r1.mods, fs, name), LAMBDA r2 :
    IF r2.exc # "" THEN r2 ELSE
    Then(rreload(r2.mods, fs, name), LAMBDA r3 :
    IF r3.exc # "" THEN r3 ELSE
    Then(reload(r3.mods, fs, name), LAMBDA r4 :
    IF r4.exc # "" THEN r4
    ELSE IF ~DictHas(DictGet(r4.mods, name), cls_name)
         THEN R(r4.mods, "AssertionError", MissingClass(module_path, cls_name))
         ELSE R(r4.mods, "", DictGet(DictGet(r4.mods, name), cls_name)))))))

\* load_config(config_path, config_name)
load_config(mods, fs, config_path, config_name) ==
    Then(_load_cls(mods, fs, config_path, config_name), LAMBDA r :
    IF r.exc # "" THEN r ELSE R(r.mods, "", Instance(r.value)))

(***************************************************************************)
(* SpecLoad: load_config and _load_cls called again and again in one       *)
(* process while the module files are edited between the calls.            *)
(***************************************************************************)
ModuleNames == {"cfgs.a", "cfgs.sub"}
ModulePaths == {"cfgs/a.py", "cfgs.a", "cfgs/c.py"}
ClassNames == {"Config", "Model"}

\* what cfgs/a.py can hold: Config (alone, or holding the option module
\* cfgs.sub), Model, both, neither, or no file at all
TopFiles ==
    {NoFile}
    \cup {File(<<>>, c \o m) :
            c \in {<<>>, <<[k |-> "Config", v |-> <<>>]>>},
            m \in {<<>>, <<[k |-> "Model", v |-> <<>>]>>}}
    \cup {File(<<"cfgs.sub">>, <<[k |-> "Config", v |-> <<"cfgs.sub">>]>> \o m) :
            m \in {<<>>, <<[k |-> "Model", v |-> <<>>]>>}}
SubFiles == {NoFile, File(<<>>, <<[k |-> "Options", v |-> <<>>]>>)}
FileStates == {[n \in ModuleNames |-> IF n = "cfgs.a" THEN a ELSE b] : a \in TopFiles, b \in SubFiles}

Loaded(op, module_path, cls_name, r) ==
    [op |-> op, module_path |-> module_path, cls_name |-> cls_name,
     exc |-> r.exc, value |-> r.value]

InitLoad ==
    /\ cfg = <<>>
    /\ env = HealthyEnv
    /\ pc = "load"
    /\ items = <<>>
    /\ loggers = NoLoggers
    /\ logs = <<>>
    /\ remote = NoRemote
    /\ issued = <<>>
    /\ files \in FileStates
    /\ sys_modules = <<>>
    /\ loaded = NoLoad

\* somebody edits, creates or deletes a module file
EditFile ==
    /\ pc = "load"
    /\ \E f \in FileStates \ {files} : files' = f
    /\ UNCHANGED <<cfg, env, pc, items, loggers, logs, remote, issued, sys_modules, loaded>>

LoadConfig ==
    /\ pc = "load"
    /\ \E p \in ModulePaths, c \in ClassNames :
        LET r == load_config(sys_modules, files, p, c) IN
        /\ sys_modules' = r.mods
        /\ loaded' = Loaded("load_config", p, c, r)
    /\ UNCHANGED <<cfg, env, pc, items, loggers, logs, remote, issued, files>>

LoadCls ==
    /\ pc = "load"
    /\ \E p \in ModulePaths, c \in ClassNames :
        LET r == _load_cls(sys_modules, files, p, c) IN
        /\ sys_modules' = r.mods
        /\ loaded' = Loaded("_load_cls", p, c, r)
    /\ UNCHANGED <<cfg, env, pc, items, loggers, logs, remote, issued, files>>

NextLoad == EditFile \/ LoadConfig \/ LoadCls

SpecLoad == InitLoad /\ [][NextLoad]_vars

\* the namespace of the module the last call resolved, as the call left it
LoadedModule == DictGet(sys_modules, module_path_fixed(loaded.module_path))

\* the last call got as far as its final reload
FinalReloadDone == loaded.op # "none" /\ loaded.exc \notin {"ModuleNotFoundError"}

ExternalAt(i) ==
    IF \E j \in ResetCalls : j < i THEN "DummyLogger"
    ELSE LET k == CHOOSE j \in 1..Len(issued) : issued[j].op = "external.__init__"
         IN IF issued[k].raised THEN "DummyLogger" ELSE issued[k].recv[1]

\* the sinks the routing rules send log call i to, in slot order
DirectedTo(i) ==
    <<"LocalLogger">> \o (IF ToBothSlots(issued[i]) THEN <<ExternalAt(i)>> ELSE <<>>)

\* C13 as stated: every log call of the MainLogger reaches, within the call
\* and exactly once, each sink the routing rules send it to, so that each sink
\* receives exactly the calls sent to it, in the order they were issued.
C13_AsStated ==
    \A i \in LogCalls : issued[i].recv = DirectedTo(i)

\* C14: there is no reconnection.  Once the external slot of a built MainLogger
\* holds a DummyLogger, it holds one after every later call and the remote
\* service is left as it was; the external sink is constructed once, within
\* MainLogger.__init__, and never again.
C14_NoReconnection ==
    [][/\ (pc = "ready" /\ loggers.external = "DummyLogger") =>
            /\ loggers'.external = "DummyLogger"
            /\ remote' = remote
            /\ ~JustIssued({"external.__init__"})
       /\ JustIssued({"external.__init__"}) =>
            /\ pc = "slots"
            /\ \A i \in 1..Len(issued) : issued[i].op # "external.__init__"]_vars

\* the construction of the NeptuneLogger raised, and log calls before and after
\* a reset_external found a DummyLogger in the external slot
C14_Witness ==
    /\ ExternalInitRaised /\ loggers.external = "DummyLogger" /\ ~remote.open
    /\ \E i, j, k \in 1..Len(issued) :
        /\ i < j /\ j < k
        /\ issued[i].op = "log" /\ issued[i].recv = <<"LocalLogger", "DummyLogger">>
        /\ issued[j].op = "reset_external"
        /\ issued[k].op = "log" /\ issued[k].recv = <<"LocalLogger", "DummyLogger">>

(***************************************************************************)
(* Further properties of LocalLogger.log (SpecSinks).                      *)
(***************************************************************************)
\* the mapping the local store holds for a subset, empty when it holds none
StoredUnder(l, subset) == IF DictHas(l, subset) THEN DictGet(l, subset) ELSE <<>>

C16_AsStated ==
    pc = "ready" => (DictHas(logs, "cfg") /\ DictGet(logs, "cfg") = get_cfg(cfg))

(***************************************************************************)
(* Fields of one name in a configuration (SpecCfg).                        *)
(***************************************************************************)
\* the position, among the kept leaves, of the last one named k
LastKept(c, k) ==
    LET ls == KeptLeaves(c) IN CHOOSE i \in 1..Len(ls) : ls[i].f.name = k /\
        \A j \in (i + 1)..Len(ls) : ls[j].f.name # k

\* C17: when several kept fields have one name, at the top level and in a
\* nested record or in two nested records, get_cfg returns one key of that name
\* whose value is that of the field met last in declared order, whether the
\* nested field comes before or after the scalar one.
C17_LaterFieldWins ==
    pc = "done" =>
        /\ \A i, j \in 1..Len(items) : i # j => items[i].k # items[j].k
        /\ \A i \in 1..Len(KeptLeaves(cfg)) : DictHas(items, KeptLeaves(cfg)[i].f.name)
        /\ \A i \in 1..Len(items) :
            LET f == KeptLeaves(cfg)[LastKept(cfg, items[i].k)].f IN
            items[i].v = IF f.ann = "float" THEN [f.val EXCEPT !.t = "float"] ELSE f.val

\* get_cfg has run on a scalar field followed by a nested record that holds a
\* field of the same name with another value, the record itself holding a field
\* "lr" in a record nested in it and, after that, a scalar "lr" of its own
C17_Witness ==
    /\ pc = "done" /\ Len(cfg) = 2
    /\ cfg[1].val.t # "dataclass" /\ cfg[2].val.t = "dataclass"
    /\ DictHas(items, cfg[1].name)
    /\ DictGet(items, cfg[1].name).n # cfg[1].val.n
    /\ \E i, j \in 1..Len(cfg[2].sub) :
        /\ i < j
        /\ cfg[2].sub[i].val.t = "dataclass" /\ cfg[2].sub[j].name = "lr"
        /\ \E k \in 1..Len(cfg[2].sub[i].sub) :
            /\ cfg[2].sub[i].sub[k].name = "lr"
            /\ cfg[2].sub[i].sub[k].val.n # cfg[2].sub[j].val.n
        /\ DictGet(items, "lr").n = cfg[2].sub[j].val.n

(***************************************************************************)
(* What reset_external leaves alone (Spec).                                *)
(***************************************************************************)
\* the last call is a log call made after a reset_external
LogAfterReset ==
    /\ Len(issued) > 0 /\ issued[Len(issued)].op = "log"
    /\ ResetCalls # {}

\* C18 as stated: reset_external changes the external slot only: the local
\* slot and the local store are as before it, every log call made after it is
\* recorded in the local store, and the local slot of a built MainLogger always
\* holds a LocalLogger.
C18_AsStated ==
    /\ [](pc = "ready" => loggers.local = "LocalLogger")
    /\ [](LogAfterReset => Recorded(issued[Len(issued)]))
    /\ [][JustIssued({"reset_external"}) =>
            (loggers'.local = loggers.local /\ logs' = logs /\ remote' = remote)]_vars

(***************************************************************************)
(* The series of the local store (SpecSinks).                              *)
(***************************************************************************)
\* the series the store l holds under (subset, name), empty when it holds none
SeriesAt(l, subset, name) ==
    IF DictHas(StoredUnder(l, subset), name) /\ DictGet(StoredUnder(l, subset), name).t = "dict"
    THEN DictGet(StoredUnder(l, subset), name)
    ELSE Series(<<>>, <<>>)

\* every series in the store has as many steps as values
SeriesBalanced ==
    \A i \in 1..Len(logs) : \A j \in 1..Len(logs[i].v) :
        logs[i].v[j].v.t = "dict" => Len(logs[i].v[j].v.steps) = Len(logs[i].v[j].v.values)

\* C19 as stated: every stored series has as many steps as values, and every
\* call of LocalLogger.log with a subset other than "image" and "html" makes the
\* series under its subset and name one entry longer (from empty when there was
\* none) and leaves every other series and the mapping of every other subset
\* as they were.
C19_AsStated ==
    /\ []SeriesBalanced
    /\ [][JustIssued({"LocalLogger.log"}) =>
            LET c == issued'[Len(issued')] IN
            c.subset \notin {"image", "html"} =>
                /\ DictHas(StoredUnder(logs', c.subset), c.name)
                /\ DictGet(StoredUnder(logs', c.subset), c.name).t = "dict"
                /\ Len(SeriesAt(logs', c.subset, c.name).steps)
                        = Len(SeriesAt(logs, c.subset, c.name).steps) + 1
                /\ Len(SeriesAt(logs', c.subset, c.name).values)
                        = Len(SeriesAt(logs, c.subset, c.name).values) + 1
                /\ DictKeys(logs') = DictKeys(logs) \cup {c.subset}
                /\ \A s \in DictKeys(logs) \ {c.subset} : DictGet(logs', s) = DictGet(logs, s)
                /\ \A n \in DictKeys(StoredUnder(logs, c.subset)) \ {c.name} :
                        DictGet(StoredUnder(logs', c.subset), n)
                            = DictGet(StoredUnder(logs, c.subset), n)]_vars

====
